---- MODULE Spec2Model ----
(***************************************************************************)
(* Model of the authenticated HTTP client of the account-management        *)
(* front-end (frontend/src/services/api.ts) and of the AuthProvider that   *)
(* listens to its 'logout' event (frontend/src/context/AuthContext.tsx).   *)
(*                                                                         *)
(* One step of the model is one turn of the browser's event loop: an HTTP  *)
(* response arriving and every promise callback it synchronously leads to, *)
(* except for the callbacks of the promises settled by processQueue, which *)
(* are kept in an explicit microtask queue (released) and run one by one   *)
(* before the next response is delivered.                                  *)
(***************************************************************************)
EXTENDS Integers, Sequences, FiniteSets, TLC

\* ---------------------------------------------------------------- bounds
MaxReq == 5        \* requests tracked (two of them belong to the start-up check)
MaxTok == 2        \* access tokens the server hands out
MaxHist == 2       \* entries of the browser history the user's navigation creates
MaxRedir == 3      \* redirects followed after one navigation

ReqIds == 1..MaxReq
Tokens == 1..MaxTok
NoToken == 0       \* null token
Null == <<>>       \* null user

\* The user object the server returns from GET /users/me and at login, with
\* the fields the profile page changes, and the user objects there are.
ServerUser == [fullname |-> "old", profile_image |-> "old", is_2fa_enabled |-> FALSE]
Users == [fullname : {"old", "new"}, profile_image : {"old", "new"},
          is_2fa_enabled : BOOLEAN]

CheckRefreshId == 1   \* POST /auth/refresh of checkAuthStatus
CheckMeId == 2        \* GET /users/me of checkAuthStatus

\* ------------------------------------------------------------------ URLs
\* A URL is the sequence of its path segments.
UrlRefresh == <<"auth", "refresh">>
UrlLogin == <<"auth", "login">>
UrlLogout == <<"auth", "logout">>
UrlUsersMe == <<"users", "me">>
UrlProfile == <<"users", "me", "profile">>
UrlEmail == <<"users", "me", "email">>
UrlAvatar == <<"users", "me", "avatar">>
Url2faEnable == <<"auth", "2fa", "enable">>
UrlVerifyLogin == <<"auth", "2fa", "verify-login">>
UrlRequestReset == <<"auth", "2fa", "request-reset">>
NoUrl == <<>>
NoOwner == "none"     \* a request nobody awaits
NoCap == <<>>         \* a request whose caller captured nothing

\* URLs of the page calls whose caller leaves the session alone (the email
\* form of the profile page).
UiUrls == {UrlEmail}

\* ---------------------------------------------------------------- routes
\* What a route renders: the full-page loader, a loading line, a redirect
\* (replacing the history entry or not) or a page.
FullPageLoader == [kind |-> "loader", arg |-> "", replace |-> FALSE]
Loading == [kind |-> "loading", arg |-> "", replace |-> FALSE]
Redirect(to, repl) == [kind |-> "redirect", arg |-> to, replace |-> repl]
Page(name) == [kind |-> "page", arg |-> name, replace |-> FALSE]
Nothing == [kind |-> "nothing", arg |-> "", replace |-> FALSE]

Paths == {"/login", "/register", "/forgot-password", "/reset-password", "/profile", "/"}

\* Variant: a logged-in visitor of a public page is sent to the profile.
PublicRouteToProfile(loading, usr, child) ==
  IF loading THEN Loading
  ELSE IF usr # Null THEN Redirect("/profile", TRUE)
  ELSE Page(child)

PublicRoute(loading, usr, child) ==
  IF loading THEN Loading
  ELSE IF usr # Null THEN Redirect("/", TRUE)
  ELSE Page(child)

ProtectedRoute(loading, tok, child) ==
  IF loading THEN Loading
  ELSE IF tok = NoToken THEN Redirect("/login", FALSE)
  ELSE Page(child)

\* <Routes>: the element of the route that matches the path.
Routes(path, loading, usr, tok) ==
  CASE path = "/login" -> PublicRoute(loading, usr, "Login")
    [] path = "/register" -> PublicRoute(loading, usr, "Register")
    [] path = "/forgot-password" -> PublicRoute(loading, usr, "ForgotPassword")
    [] path = "/reset-password" -> PublicRoute(loading, usr, "ResetPassword")
    [] path = "/profile" -> ProtectedRoute(loading, tok, "Profile")
    [] path = "/" -> Page("HomePage")
    [] OTHER -> Nothing

\* App: the loader alone while the start-up check runs, the routes after.
App(path, loading, usr, tok) ==
  IF loading THEN FullPageLoader ELSE Routes(path, loading, usr, tok)

\* Navbar: SessionTimer and the Logout button are there when App renders
\* the router and the context holds a token.
NavbarLoggedIn(loading, tok) == ~loading /\ tok # NoToken

\* String.prototype.includes for a pattern made of whole path segments.
UrlIncludes(u, pat) ==
  \E i \in 0..(Len(u) - Len(pat)) :
    \A j \in 1..Len(pat) : u[i + j] = pat[j]

\* Statuses of a failed call; 0 stands for an error without a response.
ErrStatuses == {401, 403, 429, 500, 0}

\* The form-level message of the login form; NoMessage is its absence.
NoMessage == ""

\* Variant: every failure gets the fallback message.
LoginErrorMessageFixed(status) == "Login failed."

\* The catch block of Login.onCredentialsSubmit: the message by the status
\* of the response (0: no response).
LoginErrorMessage(status) ==
  IF status = 429 THEN "Too many login attempts."
  ELSE IF status = 401 THEN "Incorrect username or password."
  ELSE IF status = 403 THEN "Account is not active. Please verify your email."
  ELSE "Login failed."

VARIABLES
  isRefreshing,   \* api.ts: let isRefreshing
  failedQueue,    \* api.ts: let failedQueue (entries named by their request)
  defaultAuth,    \* api.defaults.headers.common['Authorization']
  nextId,         \* next unused request id
  url,            \* url[r]: config.url of request r
  rst,            \* rst[r]: where request r stands ("rejected": with its own error,
                  \* "refreshRejected": with the error of the refresh)
  retry,          \* retry[r]: config._retry
  hdr,            \* hdr[r]: config.headers['Authorization']
  owner,          \* owner[r]: the caller awaiting request r
  refreshing,     \* leaders whose POST /auth/refresh is in flight
  released,       \* microtasks: then-callbacks of the promises processQueue resolved
  tokCtr,         \* server: tokens handed out so far
  user,           \* AuthProvider state: user
  accessToken,    \* AuthProvider state: accessToken
  isLoading,      \* AuthProvider state: isLoading
  \* history variables; the cur* ones describe the refresh the interceptor
  \* issued last and start afresh when it issues the next one
  curObs,         \* its requests, in the order their 401 was observed (leader first)
  curResult,      \* "none" (no refresh yet), "pending", "ok" or "fail"
  curTok,         \* the token it returned (NoToken if none)
  curSettle,      \* the callers processQueue settled for it, in order
  curResends,     \* the requests re-sent for it, in the order of api(originalRequest)
  sends,          \* sends[r]: times request r was sent
  logoutEvents,   \* 'logout' events dispatched
  \* pages
  hist,           \* browser history; its last entry is the location
  redirects,      \* redirects rendered since the user last navigated
  cap,            \* cap[r]: what the handler awaiting r captured from its render
  timerBusy,      \* SessionTimer state: isRefreshing
  loginStep,      \* Login state: loginStep
  tempToken,      \* Login state: tempToken
  otp,            \* Login state: otp
  isLoginLoading, \* Login state: isLoginLoading
  isResetOpen,    \* Login state: isResetOpen
  loginError      \* Login: loginForm.formState.errors.root.message

apiVars == <<isRefreshing, failedQueue, defaultAuth>>
reqVars == <<nextId, url, rst, retry, hdr, owner>>
authVars == <<user, accessToken, isLoading>>
histVars == <<curObs, curResult, curTok, curSettle, curResends, sends, logoutEvents>>
navVars == <<hist, redirects>>
loginVars == <<loginStep, tempToken, otp, isLoginLoading, isResetOpen, loginError>>
pageVars == <<navVars, cap, timerBusy, loginVars>>
vars == <<apiVars, reqVars, refreshing, released, tokCtr, authVars, histVars, pageVars>>

\* ------------------------------------------------------- pure functions
\* An Authorization header is <<"Bearer", token>>; NoHeader is its absence.
NoHeader == <<>>
Bearer(token) == <<"Bearer", token>>

\* setAuthToken: the default Authorization header after the call.
setAuthToken(token) ==
  IF token # NoToken THEN Bearer(token) ELSE NoHeader

\* Variant: the URL of the failed request is not looked at.
EligibleAnyUrl(u, status, retried) ==
  /\ status = 401
  /\ ~retried

\* The test that guards the refresh logic of the response interceptor.
Eligible(u, status, retried) ==
  /\ status = 401
  /\ ~UrlIncludes(u, UrlLogin)
  /\ ~UrlIncludes(u, UrlRefresh)
  /\ ~retried

\* Variants: the busy flag is not consulted; every caller is made to wait.
ShouldQueueNever(flag) == FALSE
ShouldQueueAlways(flag) == TRUE

\* if (isRefreshing): the caller waits in the queue instead of refreshing.
ShouldQueue(flag) == flag

\* originalRequest._retry of the request that leads a refresh / of one that is queued.
LeaderRetryMark(old) == TRUE
QueuedRetryMark(old) == old

\* Variant: the leader leaves the flag unset.
LeaderFlagUnset == FALSE

\* isRefreshing as the leader sets it before the refresh call.
LeaderFlag == TRUE

\* Variants of processQueue: the error is ignored; the entries are dropped;
\* the entries are visited last to first; the first entry is visited last.
processQueueIgnoreError(queue, error, token) ==
  [i \in 1..Len(queue) |->
     [req |-> queue[i], ok |-> TRUE, tok |-> token]]
processQueueDrop(queue, error, token) == <<>>
processQueueReversed(queue, error, token) ==
  [i \in 1..Len(queue) |->
     [req |-> queue[Len(queue) + 1 - i], ok |-> ~error, tok |-> token]]
processQueueRotated(queue, error, token) ==
  [i \in 1..Len(queue) |->
     [req |-> queue[(i % Len(queue)) + 1], ok |-> ~error, tok |-> token]]

\* processQueue: the settlements it performs, in order.  An entry of the
\* result says whose promise is settled, how, and with which token.
processQueue(queue, error, token) ==
  [i \in 1..Len(queue) |->
     [req |-> queue[i], ok |-> ~error, tok |-> token]]

\* Variant: the queue is not emptied.
QueueAfterProcessKeep(queue) == queue

\* Variant: the finally block leaves the flag as it is.
FinallyFlagKept(flag) == flag

\* isRefreshing as the finally block of the leader leaves it.
FinallyFlag(flag) == FALSE

\* failedQueue as processQueue leaves it.
QueueAfterProcess(queue) == <<>>

\* Authorization header of the request that led the refresh / of a queued
\* request when it is re-sent.
LeaderRetryHeader(old, token) == Bearer(token)
\* Variant: the queued request keeps the header it was first sent with.
QueuedRetryHeaderStale(old, token) == old
QueuedRetryHeader(old, token) == Bearer(token)

\* Variant: no event is dispatched.
LogoutDispatchesNone(refreshFailed) == 0

\* 'logout' events the leader dispatches when its refresh settles: one in
\* the catch block, none on the success path.
LogoutDispatches(refreshFailed) == IF refreshFailed THEN 1 ELSE 0

\* Sequence helpers.
SeqToSet(s) == {s[i] : i \in 1..Len(s)}
Occurrences(s, x) == Cardinality({i \in 1..Len(s) : s[i] = x})
Resolved(settlements) == SelectSeq(settlements, LAMBDA e : e.ok)
Rejected(settlements) == {settlements[i].req : i \in {j \in 1..Len(settlements) : ~settlements[j].ok}}
Reqs(settlements) == [i \in 1..Len(settlements) |-> settlements[i].req]

\* ------------------------------------------------------------------ Init
\* The pages as they are before anything is mounted, the browser being at
\* path p.
InitPages(p) ==
  /\ hist = <<p>>
  /\ redirects = 0
  /\ cap = [r \in ReqIds |-> NoCap]
  /\ timerBusy = FALSE
  /\ loginStep = 1
  /\ tempToken = NoToken
  /\ otp = <<>>
  /\ isLoginLoading = FALSE
  /\ isResetOpen = FALSE
  /\ loginError = NoMessage

\* The client and the AuthProvider when the provider has mounted and
\* checkAuthStatus has sent its POST /auth/refresh.
InitClient ==
  /\ isRefreshing = FALSE
  /\ failedQueue = <<>>
  /\ defaultAuth = NoHeader
  /\ nextId = 3
  /\ url = [r \in ReqIds |-> IF r = CheckRefreshId THEN UrlRefresh ELSE NoUrl]
  /\ rst = [r \in ReqIds |-> IF r = CheckRefreshId THEN "inflight" ELSE "free"]
  /\ retry = [r \in ReqIds |-> FALSE]
  /\ hdr = [r \in ReqIds |-> NoHeader]
  /\ owner = [r \in ReqIds |-> IF r = CheckRefreshId THEN "checkRefresh" ELSE NoOwner]
  /\ refreshing = {}
  /\ released = <<>>
  /\ tokCtr = 0
  /\ user = Null
  /\ accessToken = NoToken
  /\ isLoading = TRUE
  /\ curObs = <<>>
  /\ curResult = "none"
  /\ curTok = NoToken
  /\ curSettle = <<>>
  /\ curResends = <<>>
  /\ sends = [r \in ReqIds |-> IF r = CheckRefreshId THEN 1 ELSE 0]
  /\ logoutEvents = 0

\* The application opened on the profile page.
Init == InitClient /\ InitPages("/profile")

\* Responses are delivered only when no promise callback is pending.
Idle == released = <<>>

\* A request whose promise has settled towards its caller is finished: its
\* config is referenced no more, and of the request only the outcome is kept.
Finished == {"resolved", "rejected", "refreshRejected"}
Keep(f, newRst, dead) ==
  [r \in ReqIds |-> IF newRst[r] \in Finished THEN dead ELSE f[r]]

\* --------------------------------------------------- AuthProvider pieces
\* The callers whose catch block belongs to checkAuthStatus.
CheckOwners == {"checkRefresh", "checkMe"}
\* Variant: the catch block of checkAuthStatus is never entered.
CheckCaughtNever(S) == FALSE
\* Whether a request of S is awaited by checkAuthStatus, whose catch block
\* then runs.
CheckCaught(S) == \E r \in S : owner[r] \in CheckOwners

\* Requests POST /auth/logout occupies when logout() runs n times; calls
\* beyond the tracked ids are sent but not followed.
LogoutIds(n) == {r \in ReqIds : nextId <= r /\ r < nextId + n}

\* The location, what App renders there, and whether it is the given page.
Top(h) == h[Len(h)]
Rendered == App(Top(hist), isLoading, user, accessToken)
Showing(name) == Rendered = Page(name)

\* The message after the interceptor has handled the error of request r:
\* loginForm.setError("root", ...) when the caller rejected is
\* onCredentialsSubmit of the mounted Login.
LoginErrorAfter(r, status) ==
  IF ~Eligible(url[r], status, retry[r]) /\ owner[r] = "cred" /\ Showing("Login")
  THEN LoginErrorMessage(status)
  ELSE loginError

\* Component state after the callers of S were rejected: the finally
\* blocks of SessionTimer.refreshSession and of Login.onOtpSubmit.  A
\* SessionTimer that is unmounted loses its state.
TimerBusyAfter(S, unmounted) ==
  IF unmounted \/ \E r \in S : owner[r] = "timer" THEN FALSE ELSE timerBusy
LoginLoadingAfter(S) ==
  IF \E r \in S : owner[r] = "otp" THEN FALSE ELSE isLoginLoading
PageCatch(S) ==
  /\ timerBusy' = TimerBusyAfter(S, FALSE)
  /\ isLoginLoading' = LoginLoadingAfter(S)
  /\ UNCHANGED <<navVars, loginStep, tempToken, otp, isResetOpen>>

\* owner once logout() has run: the SessionTimer is unmounted, and the
\* refresh it awaits goes on without it.
TimerGone(own) ==
  [r \in ReqIds |-> IF own[r] = "timer" THEN "timerGone" ELSE own[r]]

\* ----------------------------------------------------------------- steps
\* The profile page calls the client with URL u.  Pages are mounted only
\* once the start-up check is over: until then App renders the loader alone.
Submit(u) ==
  /\ Idle
  /\ Showing("Profile")
  /\ nextId <= MaxReq
  /\ url' = [url EXCEPT ![nextId] = u]
  /\ rst' = [rst EXCEPT ![nextId] = "inflight"]
  /\ hdr' = [hdr EXCEPT ![nextId] = defaultAuth]
  /\ owner' = [owner EXCEPT ![nextId] = "ui"]
  /\ nextId' = nextId + 1
  /\ sends' = [sends EXCEPT ![nextId] = 1]
  /\ UNCHANGED <<apiVars, retry, refreshing, released, tokCtr, authVars,
                 curObs, curResult, curTok, curSettle, curResends, logoutEvents, pageVars>>

\* A 2xx response to a request of a page or of logout(): the success
\* handler of the interceptor hands it to the caller.
RespondOk(r) ==
  /\ Idle
  /\ rst[r] = "inflight"
  /\ owner[r] \in {"ui", "logout"}
  /\ rst' = [rst EXCEPT ![r] = "resolved"]
  /\ hdr' = Keep(hdr, rst', NoHeader)
  /\ retry' = Keep(retry, rst', FALSE)
  /\ sends' = Keep(sends, rst', 0)
  /\ url' = Keep(url, rst', NoUrl)
  /\ owner' = Keep(owner, rst', NoOwner)
  /\ cap' = Keep(cap, rst', NoCap)
  /\ UNCHANGED <<apiVars, nextId, refreshing, released, tokCtr, authVars,
                 curObs, curResult, curTok, curSettle, curResends, logoutEvents,
                 navVars, timerBusy, loginVars>>

\* checkAuthStatus: its POST /auth/refresh succeeded; it stores the token
\* and fetches /users/me.
CheckRefreshOk ==
  /\ Idle
  /\ rst[CheckRefreshId] = "inflight"
  /\ tokCtr < MaxTok
  /\ LET T == tokCtr + 1 IN
       /\ tokCtr' = T
       /\ accessToken' = T
       /\ defaultAuth' = setAuthToken(T)
       /\ rst' = [rst EXCEPT ![CheckRefreshId] = "resolved", ![CheckMeId] = "inflight"]
       /\ url' = Keep([url EXCEPT ![CheckMeId] = UrlUsersMe], rst', NoUrl)
       /\ hdr' = Keep([hdr EXCEPT ![CheckMeId] = setAuthToken(T)], rst', NoHeader)
       /\ owner' = Keep([owner EXCEPT ![CheckMeId] = "checkMe"], rst', NoOwner)
       /\ sends' = Keep([sends EXCEPT ![CheckMeId] = 1], rst', 0)
       /\ retry' = Keep(retry, rst', FALSE)
  /\ cap' = Keep(cap, rst', NoCap)
  /\ UNCHANGED <<isRefreshing, failedQueue, nextId, refreshing, released,
                 user, isLoading, curObs, curResult, curTok, curSettle, curResends,
                 logoutEvents, navVars, timerBusy, loginVars>>

\* checkAuthStatus: GET /users/me (sent first or re-sent) succeeded.
CheckMeOk ==
  /\ Idle
  /\ rst[CheckMeId] = "inflight"
  /\ rst' = [rst EXCEPT ![CheckMeId] = "resolved"]
  /\ hdr' = Keep(hdr, rst', NoHeader)
  /\ retry' = Keep(retry, rst', FALSE)
  /\ sends' = Keep(sends, rst', 0)
  /\ url' = Keep(url, rst', NoUrl)
  /\ owner' = Keep(owner, rst', NoOwner)
  /\ user' = ServerUser
  /\ isLoading' = FALSE
  /\ cap' = Keep(cap, rst', NoCap)
  /\ UNCHANGED <<apiVars, nextId, refreshing, released, tokCtr,
                 accessToken, curObs, curResult, curTok, curSettle, curResends,
                 logoutEvents, navVars, timerBusy, loginVars>>

\* The error handler of the response interceptor, for request r failing
\* with the given status, up to its first await.
RespondError(r, status) ==
  /\ Idle
  /\ rst[r] = "inflight"
  /\ owner[r] # "timer"
  /\ IF Eligible(url[r], status, retry[r])
     THEN IF ShouldQueue(isRefreshing)
          THEN \* queued branch
               /\ failedQueue' = Append(failedQueue, r)
               /\ rst' = [rst EXCEPT ![r] = "queued"]
               /\ retry' = [retry EXCEPT ![r] = QueuedRetryMark(retry[r])]
               /\ curObs' = Append(curObs, r)
               /\ UNCHANGED <<isRefreshing, refreshing, curResult, curTok, curSettle,
                              curResends, hdr, sends, authVars>>
          ELSE \* leader branch, up to await api.post('/auth/refresh')
               /\ retry' = [retry EXCEPT ![r] = LeaderRetryMark(retry[r])]
               /\ isRefreshing' = LeaderFlag
               /\ refreshing' = refreshing \cup {r}
               /\ rst' = [rst EXCEPT ![r] = "leading"]
               /\ curObs' = <<r>>
               /\ curResult' = "pending"
               /\ curTok' = NoToken
               /\ curSettle' = <<>>
               /\ curResends' = <<>>
               /\ UNCHANGED <<failedQueue, hdr, sends, authVars>>
     ELSE \* return Promise.reject(error)
          /\ rst' = [rst EXCEPT ![r] = "rejected"]
          /\ hdr' = Keep(hdr, rst', NoHeader)
          /\ retry' = Keep(retry, rst', FALSE)
          /\ sends' = Keep(sends, rst', 0)
          /\ IF CheckCaught({r})
             THEN user' = Null /\ accessToken' = NoToken /\ isLoading' = FALSE
             ELSE UNCHANGED authVars
          /\ UNCHANGED <<isRefreshing, failedQueue, refreshing, curObs, curResult,
                         curTok, curSettle, curResends>>
  /\ url' = Keep(url, rst', NoUrl)
  /\ owner' = Keep(owner, rst', NoOwner)
  /\ cap' = Keep(cap, rst', NoCap)
  /\ PageCatch(IF Eligible(url[r], status, retry[r]) THEN {} ELSE {r})
  /\ loginError' = LoginErrorAfter(r, status)
  /\ UNCHANGED <<defaultAuth, nextId, released, tokCtr, logoutEvents>>

\* rst after the promises of the queued callers were settled: a resolved
\* caller has its then-callback pending, a rejected one has failed with the
\* error of the refresh.
SettleRst(base, settlements) ==
  [r \in ReqIds |->
     IF base[r] = "queued" /\ \E i \in 1..Len(settlements) : settlements[i].req = r
     THEN LET i == CHOOSE j \in 1..Len(settlements) :
                     /\ settlements[j].req = r
                     /\ \A m \in 1..(j - 1) : settlements[m].req # r
          IN IF settlements[i].ok THEN "released" ELSE "refreshRejected"
     ELSE base[r]]

\* The refresh led by l succeeded: the rest of the try block and finally.
\* The server hands out a token it has not handed out before; once MaxTok
\* tokens are out, a refresh can only fail.
RefreshSucceed(l) ==
  /\ Idle
  /\ l \in refreshing
  /\ tokCtr < MaxTok
  /\ LET T == tokCtr + 1
         settlements == processQueue(failedQueue, FALSE, T)
         newHdr == LeaderRetryHeader(hdr[l], T)
     IN /\ tokCtr' = T
        /\ defaultAuth' = setAuthToken(T)
        /\ failedQueue' = QueueAfterProcess(failedQueue)
        /\ released' = released \o Resolved(settlements)
        /\ rst' = [SettleRst(rst, settlements) EXCEPT ![l] = "inflight"]
        /\ hdr' = Keep([hdr EXCEPT ![l] = newHdr], rst', NoHeader)
        /\ sends' = Keep([sends EXCEPT ![l] = @ + 1], rst', 0)
        /\ retry' = Keep(retry, rst', FALSE)
        /\ curResends' = Append(curResends, [req |-> l, hdr |-> newHdr])
        /\ curSettle' = curSettle \o Reqs(settlements)
        /\ curResult' = "ok"
        /\ curTok' = T
        /\ IF CheckCaught(Rejected(settlements))
           THEN user' = Null /\ accessToken' = NoToken /\ isLoading' = FALSE
           ELSE UNCHANGED authVars
        /\ PageCatch(Rejected(settlements))
        /\ UNCHANGED loginError
  /\ cap' = Keep(cap, rst', NoCap)
  /\ isRefreshing' = FinallyFlag(isRefreshing)
  /\ refreshing' = refreshing \ {l}
  /\ url' = Keep(url, rst', NoUrl)
  /\ owner' = Keep(owner, rst', NoOwner)
  /\ UNCHANGED <<nextId, curObs, logoutEvents>>

\* The then-callback of a queued caller whose promise was resolved.
RunMicrotask ==
  /\ released # <<>>
  /\ LET e == Head(released)
         newHdr == QueuedRetryHeader(hdr[e.req], e.tok)
     IN /\ hdr' = [hdr EXCEPT ![e.req] = newHdr]
        /\ rst' = [rst EXCEPT ![e.req] = "inflight"]
        /\ sends' = [sends EXCEPT ![e.req] = @ + 1]
        /\ curResends' = Append(curResends, [req |-> e.req, hdr |-> newHdr])
  /\ released' = Tail(released)
  /\ UNCHANGED <<apiVars, nextId, url, retry, owner, refreshing, tokCtr, authVars,
                 curObs, curResult, curTok, curSettle, logoutEvents, pageVars>>

\* The catch block and the finally block of the leader l, and the 'logout'
\* listener of the AuthProvider, which runs logout() up to its await.
RefreshCatch(l) ==
  /\ Idle
  /\ l \in refreshing
  /\ LET settlements == processQueue(failedQueue, TRUE, NoToken)
         failed == Rejected(settlements) \cup {l}
         n == LogoutDispatches(TRUE)
         ids == LogoutIds(n)
     IN /\ failedQueue' = QueueAfterProcess(failedQueue)
        /\ released' = released \o Resolved(settlements)
        /\ rst' = [r \in ReqIds |->
                     IF r = l THEN "refreshRejected"
                     ELSE IF r \in ids THEN "inflight"
                     ELSE SettleRst(rst, settlements)[r]]
        /\ curSettle' = curSettle \o Reqs(settlements)
        /\ curResult' = "fail"
        /\ logoutEvents' = logoutEvents + n
        /\ sends' = Keep([r \in ReqIds |-> IF r \in ids THEN 1 ELSE sends[r]], rst', 0)
        /\ retry' = Keep(retry, rst', FALSE)
        /\ url' = Keep([r \in ReqIds |-> IF r \in ids THEN UrlLogout ELSE url[r]],
                       rst', NoUrl)
        /\ hdr' = Keep([r \in ReqIds |-> IF r \in ids THEN setAuthToken(NoToken) ELSE hdr[r]],
                       rst', NoHeader)
        /\ owner' = Keep([r \in ReqIds |->
                            IF r \in ids THEN "logout"
                            ELSE IF n > 0 THEN TimerGone(owner)[r]
                            ELSE owner[r]],
                         rst', NoOwner)
        /\ timerBusy' = TimerBusyAfter(failed, n > 0)
        /\ isLoginLoading' = LoginLoadingAfter(failed)
        /\ nextId' = nextId + Cardinality(ids)
        /\ defaultAuth' = IF n > 0 THEN setAuthToken(NoToken) ELSE defaultAuth
        /\ user' = IF n > 0 \/ CheckCaught(failed) THEN Null ELSE user
        /\ accessToken' = IF n > 0 \/ CheckCaught(failed) THEN NoToken ELSE accessToken
        /\ isLoading' = IF CheckCaught(failed) THEN FALSE ELSE isLoading
  /\ cap' = Keep(cap, rst', NoCap)
  /\ isRefreshing' = FinallyFlag(isRefreshing)
  /\ refreshing' = refreshing \ {l}
  /\ UNCHANGED <<tokCtr, curObs, curTok, curResends, navVars, loginStep, tempToken,
                 otp, isResetOpen, loginError>>

\* The refresh led by l failed with the given status.  The error of the
\* refresh call passes the interceptor unhandled (it is a refresh request)
\* and is caught by the leader.
RefreshFail(l, status) ==
  /\ ~Eligible(UrlRefresh, status, FALSE)
  /\ RefreshCatch(l)

\* The refresh led by l was answered 2xx with a body that is null: reading
\* data.access_token throws inside the try block, before setAuthToken, and
\* the exception is caught by the leader.
RefreshThrow(l) == RefreshCatch(l)

Next ==
  \/ \E u \in UiUrls : Submit(u)
  \/ \E r \in ReqIds : RespondOk(r)
  \/ CheckRefreshOk
  \/ CheckMeOk
  \/ \E r \in ReqIds, status \in ErrStatuses : RespondError(r, status)
  \/ \E l \in ReqIds : RefreshSucceed(l)
  \/ \E l \in ReqIds, status \in ErrStatuses : RefreshFail(l, status)
  \/ \E l \in ReqIds : RefreshThrow(l)
  \/ RunMicrotask

Spec == Init /\ [][Next]_vars

\* The refresh call of the interceptor eventually settles and the event
\* loop runs every pending promise callback.  (Nothing is assumed about the
\* other HTTP calls.)
RefreshSettle ==
  \E l \in ReqIds :
    \/ RefreshSucceed(l)
    \/ \E status \in ErrStatuses : RefreshFail(l, status)
    \/ RefreshThrow(l)
Fairness ==
  /\ WF_vars(RunMicrotask)
  /\ WF_vars(RefreshSettle)
SpecLive == Spec /\ Fairness

\* Every HTTP call of the start-up check settles as well.
CheckSettle ==
  \/ CheckRefreshOk
  \/ CheckMeOk
  \/ \E r \in {CheckRefreshId, CheckMeId}, status \in ErrStatuses : RespondError(r, status)
SpecSettle == Spec /\ Fairness /\ WF_vars(CheckSettle)

\* ------------------------------------------- the pages of a logged-in user
\* URLs of the profile page's calls whose handler calls login(...) with the
\* user and the token of its render when the call succeeds: the name form,
\* the avatar upload and the confirmation of the 2FA setup.
ProfileOpUrls == {UrlProfile, UrlAvatar, Url2faEnable}

\* The object a handler of the profile page passes to login(): the user of
\* its render with the field its call changed, { ...user, field: value }.
Spread(u, opUrl) ==
  IF opUrl = UrlProfile THEN [u EXCEPT !.fullname = "new"]
  ELSE IF opUrl = UrlAvatar THEN [u EXCEPT !.profile_image = "new"]
  ELSE [u EXCEPT !.is_2fa_enabled = TRUE]

\* AuthProvider.login(loggedInUser, token): the session after the call.
LoginUser(loggedInUser, token) == loggedInUser
LoginToken(loggedInUser, token) == IF token # NoToken THEN token ELSE accessToken
LoginHeader(loggedInUser, token) ==
  IF token # NoToken THEN setAuthToken(token) ELSE defaultAuth

\* The Logout button of the Navbar: logout() up to its await.
ClickLogout ==
  /\ Idle
  /\ NavbarLoggedIn(isLoading, accessToken)
  /\ LET ids == LogoutIds(1) IN
       /\ rst' = [r \in ReqIds |-> IF r \in ids THEN "inflight" ELSE rst[r]]
       /\ url' = [r \in ReqIds |-> IF r \in ids THEN UrlLogout ELSE url[r]]
       /\ hdr' = [r \in ReqIds |-> IF r \in ids THEN setAuthToken(NoToken) ELSE hdr[r]]
       /\ owner' = [r \in ReqIds |-> IF r \in ids THEN "logout" ELSE TimerGone(owner)[r]]
       /\ sends' = [r \in ReqIds |-> IF r \in ids THEN 1 ELSE sends[r]]
       /\ nextId' = nextId + Cardinality(ids)
  /\ user' = Null
  /\ accessToken' = NoToken
  /\ defaultAuth' = setAuthToken(NoToken)
  /\ timerBusy' = TimerBusyAfter({}, TRUE)
  /\ UNCHANGED <<isRefreshing, failedQueue, retry, refreshing, released, tokCtr, isLoading,
                 curObs, curResult, curTok, curSettle, curResends, logoutEvents,
                 navVars, cap, loginVars>>

\* SessionTimer: the countdown finds the token expired and calls
\* refreshSession(), which runs up to its await.
TimerExpire ==
  /\ Idle
  /\ NavbarLoggedIn(isLoading, accessToken)
  /\ ~timerBusy
  /\ nextId <= MaxReq
  /\ timerBusy' = TRUE
  /\ url' = [url EXCEPT ![nextId] = UrlRefresh]
  /\ rst' = [rst EXCEPT ![nextId] = "inflight"]
  /\ hdr' = [hdr EXCEPT ![nextId] = defaultAuth]
  /\ owner' = [owner EXCEPT ![nextId] = "timer"]
  /\ cap' = [cap EXCEPT ![nextId] = [user |-> user, tok |-> NoToken]]
  /\ sends' = [sends EXCEPT ![nextId] = 1]
  /\ nextId' = nextId + 1
  /\ UNCHANGED <<apiVars, retry, refreshing, released, tokCtr, authVars,
                 curObs, curResult, curTok, curSettle, curResends, logoutEvents,
                 navVars, loginVars>>

\* SessionTimer.refreshSession after its await: the refresh succeeded.  The
\* callback runs whether or not the SessionTimer is still mounted.
TimerOk(r) ==
  /\ Idle
  /\ rst[r] = "inflight"
  /\ owner[r] \in {"timer", "timerGone"}
  /\ tokCtr < MaxTok
  /\ LET T == tokCtr + 1 IN
       /\ tokCtr' = T
       /\ IF cap[r].user # Null
          THEN /\ user' = LoginUser(cap[r].user, T)
               /\ accessToken' = LoginToken(cap[r].user, T)
               /\ defaultAuth' = LoginHeader(cap[r].user, T)
          ELSE UNCHANGED <<user, accessToken, defaultAuth>>
  /\ timerBusy' = TimerBusyAfter({r}, FALSE)
  /\ rst' = [rst EXCEPT ![r] = "resolved"]
  /\ hdr' = Keep(hdr, rst', NoHeader)
  /\ retry' = Keep(retry, rst', FALSE)
  /\ sends' = Keep(sends, rst', 0)
  /\ url' = Keep(url, rst', NoUrl)
  /\ owner' = Keep(owner, rst', NoOwner)
  /\ cap' = Keep(cap, rst', NoCap)
  /\ UNCHANGED <<isRefreshing, failedQueue, nextId, refreshing, released, isLoading,
                 curObs, curResult, curTok, curSettle, curResends, logoutEvents,
                 navVars, loginVars>>

\* The countdown effect of the SessionTimer when it runs again because
\* refreshSession changed: calculateTimeLeft() calls refreshSession() when
\* the token's expiry has passed.
EffectRefreshes(expired) == expired

\* SessionTimer.refreshSession after its await, the refresh having failed
\* (the interceptor passes the error of a POST /auth/refresh through): catch
\* and finally, then the render with isRefreshing false and the countdown
\* effect that render runs again.  The token is the one the countdown found
\* expired, so it still is.  A call beyond the tracked ids is sent but not
\* followed.
TimerFail(r, status) ==
  /\ Idle
  /\ rst[r] = "inflight"
  /\ owner[r] = "timer"
  /\ ~Eligible(url[r], status, retry[r])
  /\ LET again == EffectRefreshes(TRUE)
         tracked == again /\ nextId <= MaxReq
         Issue(f, v) == IF tracked THEN [f EXCEPT ![nextId] = v] ELSE f
     IN /\ rst' = Issue([rst EXCEPT ![r] = "rejected"], "inflight")
        /\ hdr' = Issue(Keep(hdr, rst', NoHeader), defaultAuth)
        /\ retry' = Keep(retry, rst', FALSE)
        /\ sends' = Issue(Keep(sends, rst', 0), 1)
        /\ url' = Issue(Keep(url, rst', NoUrl), UrlRefresh)
        /\ owner' = Issue(Keep(owner, rst', NoOwner), "timer")
        /\ cap' = Issue(Keep(cap, rst', NoCap), [user |-> user, tok |-> NoToken])
        /\ nextId' = IF tracked THEN nextId + 1 ELSE nextId
        /\ timerBusy' = again
  /\ UNCHANGED <<apiVars, refreshing, released, tokCtr, authVars,
                 curObs, curResult, curTok, curSettle, curResends, logoutEvents,
                 navVars, loginVars>>

\* The profile page submits the name form, uploads an avatar or confirms
\* the 2FA setup: the handler up to its await.
SubmitProfileOp(u) ==
  /\ Idle
  /\ Showing("Profile")
  /\ nextId <= MaxReq
  /\ url' = [url EXCEPT ![nextId] = u]
  /\ rst' = [rst EXCEPT ![nextId] = "inflight"]
  /\ hdr' = [hdr EXCEPT ![nextId] = defaultAuth]
  /\ owner' = [owner EXCEPT ![nextId] = "profileOp"]
  /\ cap' = [cap EXCEPT ![nextId] = [user |-> user, tok |-> accessToken]]
  /\ sends' = [sends EXCEPT ![nextId] = 1]
  /\ nextId' = nextId + 1
  /\ UNCHANGED <<apiVars, retry, refreshing, released, tokCtr, authVars,
                 curObs, curResult, curTok, curSettle, curResends, logoutEvents,
                 navVars, timerBusy, loginVars>>

\* The handler after its await, the call having succeeded.
ProfileOpOk(r) ==
  /\ Idle
  /\ rst[r] = "inflight"
  /\ owner[r] = "profileOp"
  /\ IF cap[r].user # Null
     THEN /\ user' = LoginUser(Spread(cap[r].user, url[r]), cap[r].tok)
          /\ accessToken' = LoginToken(cap[r].user, cap[r].tok)
          /\ defaultAuth' = LoginHeader(cap[r].user, cap[r].tok)
     ELSE UNCHANGED <<user, accessToken, defaultAuth>>
  /\ rst' = [rst EXCEPT ![r] = "resolved"]
  /\ hdr' = Keep(hdr, rst', NoHeader)
  /\ retry' = Keep(retry, rst', FALSE)
  /\ sends' = Keep(sends, rst', 0)
  /\ url' = Keep(url, rst', NoUrl)
  /\ owner' = Keep(owner, rst', NoOwner)
  /\ cap' = Keep(cap, rst', NoCap)
  /\ UNCHANGED <<isRefreshing, failedQueue, nextId, refreshing, released, tokCtr,
                 isLoading, curObs, curResult, curTok, curSettle, curResends, logoutEvents,
                 navVars, timerBusy, loginVars>>

\* The application with a user who stays on the profile page: session
\* timer, Logout button and the calls that end in login(...).  Nobody logs
\* in with credentials.
NextApp ==
  \/ CheckRefreshOk
  \/ CheckMeOk
  \/ \E r \in ReqIds : RespondOk(r)
  \/ \E r \in ReqIds, status \in ErrStatuses : RespondError(r, status)
  \/ \E l \in ReqIds : RefreshSucceed(l)
  \/ \E l \in ReqIds, status \in ErrStatuses : RefreshFail(l, status)
  \/ \E l \in ReqIds : RefreshThrow(l)
  \/ RunMicrotask
  \/ ClickLogout
  \/ TimerExpire
  \/ \E r \in ReqIds : TimerOk(r)
  \/ \E r \in ReqIds, status \in ErrStatuses : TimerFail(r, status)
  \/ \E u \in ProfileOpUrls : SubmitProfileOp(u)
  \/ \E r \in ReqIds : ProfileOpOk(r)

SpecApp == Init /\ [][NextApp]_vars

\* --------------------------------------------------------- the Login page
\* The OTP field: characters the user can type, the digits among them, and
\* the length the field allows.
KeyChars == {"7", "x"}
Digits == {"0", "1", "2", "3", "4", "5", "6", "7", "8", "9"}
OtpMaxLength == 6

\* onChange of the OTP field when the user types ch: the browser ignores
\* the key once maxLength is reached, and the handler drops every character
\* that is not a digit.
OtpChanged(old, ch) ==
  IF Len(old) >= OtpMaxLength THEN old
  ELSE SelectSeq(Append(old, ch), LAMBDA c : c \in Digits)

\* The Verify button is enabled.
OtpSubmittable(code, busy) == ~busy /\ ~(Len(code) < OtpMaxLength)

\* Variant: the answer of POST /auth/login is never taken as a 2FA demand.
TwoFactorBranchNever(require2fa) == FALSE

\* if (responseData.require_2fa)
TwoFactorBranch(require2fa) == require2fa

\* loginForm.formState.isSubmitting: onCredentialsSubmit has not returned.
CredSubmitting == \E r \in ReqIds : owner[r] = "cred" /\ rst[r] = "inflight"

\* Login state when the component is not mounted (its initial state).
LoginUnmounted ==
  /\ loginStep' = 1
  /\ tempToken' = NoToken
  /\ otp' = <<>>
  /\ isLoginLoading' = FALSE
  /\ isResetOpen' = FALSE
  /\ loginError' = NoMessage

\* onCredentialsSubmit up to its await.
CredSubmit ==
  /\ Idle
  /\ Showing("Login")
  /\ loginStep = 1
  /\ ~CredSubmitting
  /\ nextId <= MaxReq
  /\ loginError' = NoMessage
  /\ url' = [url EXCEPT ![nextId] = UrlLogin]
  /\ rst' = [rst EXCEPT ![nextId] = "inflight"]
  /\ hdr' = [hdr EXCEPT ![nextId] = defaultAuth]
  /\ owner' = [owner EXCEPT ![nextId] = "cred"]
  /\ sends' = [sends EXCEPT ![nextId] = 1]
  /\ nextId' = nextId + 1
  /\ UNCHANGED <<apiVars, retry, refreshing, released, tokCtr, authVars,
                 curObs, curResult, curTok, curSettle, curResends, logoutEvents, navVars, cap,
                 timerBusy, loginStep, tempToken, otp, isLoginLoading, isResetOpen>>

\* onCredentialsSubmit after its await: POST /auth/login was answered 2xx,
\* demanding a second factor or not.  The temp token of the answer is named
\* by the request that obtained it.  Setting the state of a Login that is
\* no longer mounted has no effect; login() and navigate('/') have.
CredOk(r, require2fa) ==
  /\ Idle
  /\ rst[r] = "inflight"
  /\ owner[r] = "cred"
  /\ IF TwoFactorBranch(require2fa)
     THEN /\ IF Showing("Login")
             THEN /\ tempToken' = r
                  /\ loginStep' = 2
                  /\ UNCHANGED <<otp, isLoginLoading, isResetOpen, loginError>>
             ELSE UNCHANGED loginVars
          /\ UNCHANGED <<user, accessToken, defaultAuth, tokCtr, navVars>>
     ELSE /\ tokCtr < MaxTok
          /\ tokCtr' = tokCtr + 1
          /\ user' = LoginUser(ServerUser, tokCtr + 1)
          /\ accessToken' = LoginToken(ServerUser, tokCtr + 1)
          /\ defaultAuth' = LoginHeader(ServerUser, tokCtr + 1)
          /\ hist' = Append(hist, "/")
          /\ redirects' = 0
          /\ LoginUnmounted
  /\ rst' = [rst EXCEPT ![r] = "resolved"]
  /\ hdr' = Keep(hdr, rst', NoHeader)
  /\ retry' = Keep(retry, rst', FALSE)
  /\ sends' = Keep(sends, rst', 0)
  /\ url' = Keep(url, rst', NoUrl)
  /\ owner' = Keep(owner, rst', NoOwner)
  /\ cap' = Keep(cap, rst', NoCap)
  /\ UNCHANGED <<isRefreshing, failedQueue, nextId, refreshing, released, isLoading,
                 curObs, curResult, curTok, curSettle, curResends, logoutEvents, timerBusy>>

\* The user types a character into the OTP field.
OtpChange(ch) ==
  /\ Showing("Login")
  /\ loginStep = 2
  /\ ~isResetOpen
  /\ otp' = OtpChanged(otp, ch)
  /\ otp' # otp
  /\ UNCHANGED <<apiVars, reqVars, refreshing, released, tokCtr, authVars, histVars,
                 navVars, cap, timerBusy, loginStep, tempToken, isLoginLoading, isResetOpen,
                 loginError>>

\* onOtpSubmit up to its await.
OtpSubmit ==
  /\ Idle
  /\ Showing("Login")
  /\ loginStep = 2
  /\ ~isResetOpen
  /\ OtpSubmittable(otp, isLoginLoading)
  /\ nextId <= MaxReq
  /\ isLoginLoading' = TRUE
  /\ url' = [url EXCEPT ![nextId] = UrlVerifyLogin]
  /\ rst' = [rst EXCEPT ![nextId] = "inflight"]
  /\ hdr' = [hdr EXCEPT ![nextId] = defaultAuth]
  /\ owner' = [owner EXCEPT ![nextId] = "otp"]
  /\ cap' = [cap EXCEPT ![nextId] = [temp |-> tempToken, code |-> otp]]
  /\ sends' = [sends EXCEPT ![nextId] = 1]
  /\ nextId' = nextId + 1
  /\ UNCHANGED <<apiVars, retry, refreshing, released, tokCtr, authVars,
                 curObs, curResult, curTok, curSettle, curResends, logoutEvents,
                 navVars, timerBusy, loginStep, tempToken, otp, isResetOpen, loginError>>

\* onOtpSubmit after its await: the verification succeeded.
OtpOk(r) ==
  /\ Idle
  /\ rst[r] = "inflight"
  /\ owner[r] = "otp"
  /\ tokCtr < MaxTok
  /\ tokCtr' = tokCtr + 1
  /\ user' = LoginUser(ServerUser, tokCtr + 1)
  /\ accessToken' = LoginToken(ServerUser, tokCtr + 1)
  /\ defaultAuth' = LoginHeader(ServerUser, tokCtr + 1)
  /\ hist' = Append(hist, "/")
  /\ redirects' = 0
  /\ LoginUnmounted
  /\ rst' = [rst EXCEPT ![r] = "resolved"]
  /\ hdr' = Keep(hdr, rst', NoHeader)
  /\ retry' = Keep(retry, rst', FALSE)
  /\ sends' = Keep(sends, rst', 0)
  /\ url' = Keep(url, rst', NoUrl)
  /\ owner' = Keep(owner, rst', NoOwner)
  /\ cap' = Keep(cap, rst', NoCap)
  /\ UNCHANGED <<isRefreshing, failedQueue, nextId, refreshing, released, isLoading,
                 curObs, curResult, curTok, curSettle, curResends, logoutEvents, timerBusy>>

\* The 'Back to Login' button.
BackToLogin ==
  /\ Showing("Login")
  /\ loginStep = 2
  /\ ~isResetOpen
  /\ loginStep' = 1
  /\ otp' = <<>>
  /\ UNCHANGED <<apiVars, reqVars, refreshing, released, tokCtr, authVars, histVars,
                 navVars, cap, timerBusy, tempToken, isLoginLoading, isResetOpen, loginError>>

\* 'Reset Authenticator?' opens the dialog; the dialog can be closed.
SetResetOpen(open) ==
  /\ Showing("Login")
  /\ loginStep = 2
  /\ isResetOpen # open
  /\ isResetOpen' = open
  /\ UNCHANGED <<apiVars, reqVars, refreshing, released, tokCtr, authVars, histVars,
                 navVars, cap, timerBusy, loginStep, tempToken, otp, isLoginLoading,
                 loginError>>

\* onResetSubmit up to its await.
ResetSubmit ==
  /\ Idle
  /\ Showing("Login")
  /\ isResetOpen
  /\ nextId <= MaxReq
  /\ url' = [url EXCEPT ![nextId] = UrlRequestReset]
  /\ rst' = [rst EXCEPT ![nextId] = "inflight"]
  /\ hdr' = [hdr EXCEPT ![nextId] = defaultAuth]
  /\ owner' = [owner EXCEPT ![nextId] = "reset"]
  /\ sends' = [sends EXCEPT ![nextId] = 1]
  /\ nextId' = nextId + 1
  /\ UNCHANGED <<apiVars, retry, refreshing, released, tokCtr, authVars,
                 curObs, curResult, curTok, curSettle, curResends, logoutEvents, pageVars>>

\* onResetSubmit after its await: the request was accepted.
ResetOk(r) ==
  /\ Idle
  /\ rst[r] = "inflight"
  /\ owner[r] = "reset"
  /\ IF Showing("Login")
     THEN /\ isResetOpen' = FALSE
          /\ loginStep' = 1
          /\ otp' = <<>>
          /\ UNCHANGED <<tempToken, isLoginLoading, loginError>>
     ELSE UNCHANGED loginVars
  /\ rst' = [rst EXCEPT ![r] = "resolved"]
  /\ hdr' = Keep(hdr, rst', NoHeader)
  /\ retry' = Keep(retry, rst', FALSE)
  /\ sends' = Keep(sends, rst', 0)
  /\ url' = Keep(url, rst', NoUrl)
  /\ owner' = Keep(owner, rst', NoOwner)
  /\ cap' = Keep(cap, rst', NoCap)
  /\ UNCHANGED <<apiVars, nextId, refreshing, released, tokCtr, authVars,
                 curObs, curResult, curTok, curSettle, curResends, logoutEvents,
                 navVars, timerBusy>>

\* The application opened on the login page, with a user who stays there
\* until logged in.
InitLogin == InitClient /\ InitPages("/login")

NextLogin ==
  \/ CheckRefreshOk
  \/ CheckMeOk
  \/ \E r \in ReqIds : RespondOk(r)
  \/ \E r \in ReqIds, status \in ErrStatuses : RespondError(r, status)
  \/ \E l \in ReqIds : RefreshSucceed(l)
  \/ \E l \in ReqIds, status \in ErrStatuses : RefreshFail(l, status)
  \/ \E l \in ReqIds : RefreshThrow(l)
  \/ RunMicrotask
  \/ CredSubmit
  \/ \E r \in ReqIds, require2fa \in BOOLEAN : CredOk(r, require2fa)
  \/ \E ch \in KeyChars : OtpChange(ch)
  \/ OtpSubmit
  \/ \E r \in ReqIds : OtpOk(r)
  \/ BackToLogin
  \/ \E open \in BOOLEAN : SetResetOpen(open)
  \/ ResetSubmit
  \/ \E r \in ReqIds : ResetOk(r)

SpecLogin == InitLogin /\ [][NextLogin]_vars

\* ---------------------------------------------------------- the router
\* The user follows a link to path p.
NavigateTo(p) ==
  /\ ~isLoading
  /\ Len(hist) < MaxHist
  /\ hist' = Append(hist, p)
  /\ redirects' = 0
  /\ UNCHANGED <<apiVars, reqVars, refreshing, released, tokCtr, authVars, histVars,
                 cap, timerBusy, loginVars>>

\* The route at the location renders <Navigate>: the location changes, in
\* place of the current history entry if the element says replace.
RouteRedirect ==
  /\ Rendered.kind = "redirect"
  /\ redirects < MaxRedir
  /\ hist' = IF Rendered.replace
             THEN [hist EXCEPT ![Len(hist)] = Rendered.arg]
             ELSE Append(hist, Rendered.arg)
  /\ redirects' = redirects + 1
  /\ UNCHANGED <<apiVars, reqVars, refreshing, released, tokCtr, authVars, histVars,
                 cap, timerBusy, loginVars>>

\* The routes alone: the browser is at any path, the AuthProvider holds any
\* combination of isLoading, user and access token, and no request is
\* followed.
InitRoutes ==
  /\ \E p \in Paths : InitPages(p)
  /\ isLoading \in BOOLEAN
  /\ user \in {Null, ServerUser}
  /\ accessToken \in {NoToken} \cup Tokens
  /\ isRefreshing = FALSE
  /\ failedQueue = <<>>
  /\ defaultAuth = setAuthToken(accessToken)
  /\ nextId = 3
  /\ url = [r \in ReqIds |-> NoUrl]
  /\ rst = [r \in ReqIds |-> "free"]
  /\ retry = [r \in ReqIds |-> FALSE]
  /\ hdr = [r \in ReqIds |-> NoHeader]
  /\ owner = [r \in ReqIds |-> NoOwner]
  /\ refreshing = {}
  /\ released = <<>>
  /\ tokCtr = accessToken
  /\ curObs = <<>>
  /\ curResult = "none"
  /\ curTok = NoToken
  /\ curSettle = <<>>
  /\ curResends = <<>>
  /\ sends = [r \in ReqIds |-> 0]
  /\ logoutEvents = 0

NextRoutes ==
  \/ \E p \in Paths : NavigateTo(p)
  \/ RouteRedirect

SpecRoutes == InitRoutes /\ [][NextRoutes]_vars

TypeOK ==
  /\ isRefreshing \in BOOLEAN
  /\ SeqToSet(failedQueue) \subseteq ReqIds
  /\ defaultAuth \in {NoHeader} \cup {Bearer(t) : t \in Tokens}
  /\ nextId \in 3..(MaxReq + 1)
  /\ \A r \in ReqIds :
       rst[r] \in {"free", "inflight", "queued", "leading", "released",
                   "resolved", "rejected", "refreshRejected"}
  /\ refreshing \subseteq ReqIds
  /\ tokCtr \in 0..MaxTok
  /\ user \in {Null} \cup Users
  /\ accessToken \in {NoToken} \cup Tokens
  /\ hist \in Seq(Paths) /\ Len(hist) >= 1
  /\ redirects \in 0..MaxRedir
  /\ timerBusy \in BOOLEAN
  /\ loginStep \in {1, 2}
  /\ tempToken \in {NoToken} \cup ReqIds
  /\ Len(otp) <= OtpMaxLength /\ SeqToSet(otp) \subseteq Digits
  /\ isLoginLoading \in BOOLEAN
  /\ isResetOpen \in BOOLEAN
  /\ loginError \in {NoMessage} \cup {LoginErrorMessage(st) : st \in ErrStatuses}
  /\ \A r \in ReqIds : cap[r] # NoCap => rst[r] \notin {"free"} \cup Finished

\* ================================================================ claims
\* Requests whose eligible 401 was observed and whose refresh has not settled.
Group == {r \in ReqIds : rst[r] \in {"leading", "queued"}}
Leaders == {r \in ReqIds : rst[r] = "leading"}

\* The requests re-sent for the latest refresh, in the order they were
\* re-sent; its queued callers among them; whether s lists the elements of
\* t, each once.
Resent == [i \in 1..Len(curResends) |-> curResends[i].req]
QueuedResent == SelectSeq(Resent, LAMBDA r : r # curObs[1])
IsPermutation(s, t) ==
  /\ Len(s) = Len(t)
  /\ SeqToSet(s) = SeqToSet(t)
  /\ \A i, j \in 1..Len(s) : s[i] = s[j] => i = j

\* C1: all requests whose 401 is observed before the refresh settles are
\* handled under one and the same POST /auth/refresh: the waiting group has
\* exactly one leader, its members are exactly the requests observed since
\* the interceptor last issued a refresh, and that one refresh is in flight.
C1_SingleRefresh ==
  Group # {} =>
    /\ Cardinality(Leaders) = 1
    /\ curResult = "pending"
    /\ Group = SeqToSet(curObs)
    /\ refreshing = {curObs[1]}

\* A group of three: one leader and two queued callers.
C1_Witness == Cardinality(Group) >= 3 /\ Len(failedQueue) >= 2

\* C2: the flag is tested and set in one step: a 401 handled while the flag
\* is false sets it and issues the refresh, a 401 handled while it is true
\* is enqueued and issues none, and two refreshes of the interceptor are
\* never in flight together.
C2_MutualExclusion ==
  [][/\ Cardinality(refreshing') <= 1
     /\ \A r \in ReqIds :
          /\ (rst[r] = "inflight" /\ rst'[r] = "queued") =>
               /\ isRefreshing /\ isRefreshing'
               /\ refreshing' = refreshing
               /\ failedQueue' = Append(failedQueue, r)
          /\ (rst[r] = "inflight" /\ rst'[r] = "leading") =>
               /\ ~isRefreshing /\ isRefreshing'
               /\ refreshing = {}
               /\ refreshing' = {r}
               /\ failedQueue' = failedQueue]_vars

\* A later refresh is in flight (an earlier one succeeded) with a caller
\* queued behind it.
C2_Witness ==
  /\ isRefreshing
  /\ Cardinality(refreshing) = 1
  /\ failedQueue # <<>>
  /\ tokCtr = MaxTok

\* C3: every re-sent request carries 'Bearer T' for the token T that the
\* refresh it waited for returned, and that token is none the client held
\* before.
C3_SameCredential ==
  \A i \in 1..Len(curResends) :
    /\ curResult = "ok"
    /\ curTok # NoToken
    /\ curResends[i].hdr = Bearer(curTok)
    /\ rst[curResends[i].req] = "inflight" /\ sends[curResends[i].req] = 2 =>
         hdr[curResends[i].req] = Bearer(curTok)

\* The leader and a queued caller of one refresh were both re-sent, the
\* refresh being the second to hand out a token.
C3_Witness ==
  /\ Len(curResends) >= 2
  /\ curTok = 2
  /\ released = <<>>

\* C4: when a refresh fails, its leader and every caller queued during it
\* are rejected with the error of the refresh and none of them is re-sent;
\* when it succeeds, each of them is re-sent (or its callback is pending).
C4_RejectedTogether ==
  /\ curResult = "fail" =>
       /\ curResends = <<>>
       /\ released = <<>>
       /\ \A r \in SeqToSet(curObs) : rst[r] = "refreshRejected"
  /\ curResult = "ok" =>
       /\ \A r \in SeqToSet(curObs) :
            r \in SeqToSet(Resent) \/ rst[r] = "released"
       /\ \A r \in ReqIds : rst[r] = "released" => r \in SeqToSet(curObs)

\* A refresh with a leader and two queued callers has failed.
C4_Witness ==
  /\ curResult = "fail"
  /\ Len(curObs) >= 3

\* C5: every failed refresh of the interceptor dispatches one 'logout'
\* event, and the AuthProvider's listener then runs logout(): user and
\* access token are null, the default Authorization header is removed; no
\* event is dispatched otherwise.
C5_LogoutOnFailedRefresh ==
  [][IF curResult = "pending" /\ curResult' = "fail"
     THEN /\ logoutEvents' = logoutEvents + 1
          /\ user' = Null
          /\ accessToken' = NoToken
          /\ defaultAuth' = NoHeader
     ELSE logoutEvents' = logoutEvents]_vars

\* A refresh failed while the user was logged in by the start-up check.
C5_Witness ==
  /\ curResult = "fail"
  /\ logoutEvents >= 1
  /\ rst[CheckMeId] = "resolved"
  /\ ~isLoading
  /\ user = Null
  /\ accessToken = NoToken
  /\ defaultAuth = NoHeader

\* C6: no request waits for a refresh forever: whenever a request leads a
\* refresh, is queued or has its then-callback pending, it is later re-sent
\* or rejected (it is again and again out of the waiting states); and a
\* queued caller leaves the queue only in the step in which the refresh
\* settles.
C6_EventualSettlement ==
  /\ \A r \in ReqIds :
       []<>(rst[r] \in {"free", "inflight", "resolved", "rejected", "refreshRejected"})
  /\ [][\A r \in ReqIds :
          (rst[r] = "queued" /\ rst'[r] # "queued") =>
            /\ refreshing # {}
            /\ refreshing' = {}
            /\ rst'[r] \in {"released", "refreshRejected"}]_vars

\* A caller that waited in the queue has been re-sent.
C6_Witness ==
  \E i \in 2..Len(curResends) :
    /\ rst[curResends[i].req] = "inflight"
    /\ curResends[i].req # curObs[1]

\* C7: every entry pushed on the queue is settled exactly once, by the
\* refresh that was in flight when it was pushed: while that refresh is
\* pending the queue holds exactly its callers, each once, and none is
\* settled; once it has settled, processQueue has settled each of its
\* callers once and the queue is empty, so that nothing stays behind for a
\* later refresh.
C7_OneOutcomePerCaller ==
  /\ \A r \in ReqIds : rst[r] = "queued" <=> Occurrences(failedQueue, r) = 1
  /\ \A r \in ReqIds : Occurrences(failedQueue, r) <= 1
  /\ IF curResult = "pending"
     THEN /\ failedQueue = Tail(curObs)
          /\ curSettle = <<>>
     ELSE /\ failedQueue = <<>>
          /\ curResult # "none" => IsPermutation(curSettle, Tail(curObs))

\* A later refresh has settled the caller queued behind it, while a request
\* re-sent after an earlier refresh is still in flight.
C7_Witness ==
  /\ curResult \in {"ok", "fail"}
  /\ curSettle # <<>>
  /\ failedQueue = <<>>
  /\ \E r \in ReqIds :
       /\ rst[r] = "inflight"
       /\ sends[r] = 2
       /\ r \notin SeqToSet(curObs)

\* C8: when a refresh settles, processQueue settles the callers queued
\* during it in the order their 401 responses were observed, and after a
\* success they are re-sent in that order.
C8_FifoRelease ==
  /\ curResult \in {"ok", "fail"} => curSettle = Tail(curObs)
  /\ curResult = "ok" => QueuedResent \o Reqs(released) = Tail(curObs)

\* Two callers were queued during a refresh that succeeded, and both were
\* re-sent.
C8_Witness ==
  /\ curResult = "ok"
  /\ Len(QueuedResent) >= 2

\* C9 as stated: the requests of one successful refresh are re-sent in the
\* order in which the pages submitted them (the order of their ids).
C9_SubmissionOrder ==
  \A i, j \in 1..Len(Resent) :
    (i < j /\ owner[Resent[i]] = "ui" /\ owner[Resent[j]] = "ui") =>
      Resent[i] < Resent[j]

\* C9 as amended: the requests of one successful refresh are re-sent in the
\* order in which their 401 responses were observed, the leader first.
C9_ObservationOrder ==
  curResult = "ok" => Resent \o Reqs(released) = curObs

\* A request submitted later led the refresh, one submitted earlier was
\* queued, and both were re-sent.
C9_Witness ==
  /\ curResult = "ok"
  /\ Len(Resent) >= 2
  /\ Resent[1] > Resent[2]
  /\ owner[Resent[1]] = "ui"
  /\ owner[Resent[2]] = "ui"

\* C10 as stated: a request that was re-sent once is never re-sent again,
\* and a 401 on it neither starts a refresh nor puts it in the queue.
C10_AtMostOneReplay ==
  \A r \in ReqIds :
    /\ sends[r] <= 2
    /\ sends[r] = 2 => rst[r] = "inflight"

\* C11: between two turns of the event loop, isRefreshing = false implies
\* that failedQueue is empty and that no caller waits for a settlement:
\* entries are pushed only under a set flag, and both the success path and
\* the failure path empty the queue before finally clears the flag.
C11_QueueDrained ==
  ~isRefreshing =>
    /\ failedQueue = <<>>
    /\ \A r \in ReqIds : rst[r] # "queued"

\* The flag is clear again after a refresh behind which two callers were
\* queued.
C11_Witness ==
  /\ ~isRefreshing
  /\ failedQueue = <<>>
  /\ curResult \in {"ok", "fail"}
  /\ Len(curSettle) >= 2

\* C12: whenever a refresh of the interceptor settles (it succeeded, it
\* failed, or handling its answer threw), isRefreshing is false after the
\* step; a caller is queued only behind a refresh that is in flight; and an
\* eligible 401 handled while no refresh is in flight starts a new refresh
\* instead of being queued.
C12_FlagReleased ==
  [][/\ (refreshing # {} /\ refreshing' = {}) => ~isRefreshing'
     /\ \A r \in ReqIds :
          /\ (rst[r] = "inflight" /\ rst'[r] = "queued") => refreshing' # {}
          /\ (refreshing = {} /\ rst[r] = "inflight" /\ rst'[r] \in {"queued", "leading"}) =>
               /\ rst'[r] = "leading"
               /\ refreshing' = {r}]_vars

\* After a refresh that failed (or threw), a page's request leads a new one.
C12_Witness ==
  /\ logoutEvents >= 1
  /\ curResult = "pending"
  /\ isRefreshing
  /\ \E r \in ReqIds : rst[r] = "leading" /\ owner[r] = "ui"

\* C14: the error handler takes the refresh logic (the caller leads a
\* refresh or is queued) exactly for a 401 whose URL contains neither
\* /auth/login nor /auth/refresh and whose request is not marked _retry.
\* For every other error the caller is rejected with that error, and
\* isRefreshing, failedQueue, the default Authorization header and the
\* refreshes in flight are unchanged and no 'logout' event is dispatched.
\* The flag is set, the queue grows and a refresh is issued in no step but
\* one that handles such a 401.
C14_TriggerAndFrame ==
  [][/\ \A r \in ReqIds, status \in ErrStatuses :
          RespondError(r, status) =>
            IF /\ status = 401
               /\ ~UrlIncludes(url[r], UrlLogin)
               /\ ~UrlIncludes(url[r], UrlRefresh)
               /\ ~retry[r]
            THEN rst'[r] \in {"queued", "leading"}
            ELSE /\ rst'[r] = "rejected"
                 /\ isRefreshing' = isRefreshing
                 /\ failedQueue' = failedQueue
                 /\ defaultAuth' = defaultAuth
                 /\ refreshing' = refreshing
                 /\ logoutEvents' = logoutEvents
     /\ ((~isRefreshing /\ isRefreshing')
           \/ Len(failedQueue') > Len(failedQueue)
           \/ refreshing' \ refreshing # {}) =>
          \E r \in ReqIds :
            /\ rst[r] = "inflight"
            /\ rst'[r] \in {"queued", "leading"}
            /\ ~UrlIncludes(url[r], UrlLogin)
            /\ ~UrlIncludes(url[r], UrlRefresh)
            /\ ~retry[r]]_vars

\* The request that led a successful refresh was re-sent and then rejected
\* with the error of its re-send (it was marked _retry), the header set by
\* that refresh still being in place; a login request is in flight.
C14_Witness ==
  /\ curResult = "ok"
  /\ rst[curObs[1]] = "rejected"
  /\ defaultAuth = Bearer(curTok)
  /\ \E r \in ReqIds : rst[r] = "inflight" /\ url[r] = UrlLogin

\* C15 as stated: once a failed refresh has made logout() send POST
\* /auth/logout, nothing more is issued: whatever the server answers, that
\* request neither leads a refresh nor waits for one nor is sent again, so
\* that the chain logout, 401, refresh, failure, 'logout' event, logout has
\* no second round.
C15_LogoutQuiescent ==
  \A r \in ReqIds :
    owner[r] = "logout" =>
      /\ rst[r] = "inflight"
      /\ sends[r] = 1

\* C18 as stated: whenever no authentication operation is in progress (the
\* start-up check is over, no refresh is in flight, no promise callback is
\* pending and no request of logout() is outstanding), the access token of
\* the AuthProvider and the default Authorization header of the client
\* agree: no token and no header, or token T and header 'Bearer T'.
C18_TokenConsistency ==
  (/\ ~isLoading
   /\ refreshing = {}
   /\ released = <<>>
   /\ \A r \in ReqIds : owner[r] # "logout") =>
    defaultAuth = setAuthToken(accessToken)

\* C20: isLoading starts true and, every HTTP call settling, becomes false;
\* it never becomes true again, so it is set to false exactly once.  In the
\* step that sets it to false, either the refresh and the fetch of
\* /users/me both succeeded and user and access token are both non-null,
\* or user and access token are both null.
C20_StartupCheck ==
  /\ <>(~isLoading)
  /\ [][/\ ~isLoading => ~isLoading'
        /\ (isLoading /\ ~isLoading') =>
             \/ /\ rst'[CheckRefreshId] = "resolved"
                /\ rst'[CheckMeId] = "resolved"
                /\ user' # Null
                /\ accessToken' # NoToken
             \/ /\ user' = Null
                /\ accessToken' = NoToken]_vars

\* The start-up check ended logged in after its GET /users/me was answered
\* 401 and re-sent behind a refresh of the interceptor.
C20_Witness ==
  /\ ~isLoading
  /\ user # Null
  /\ accessToken # NoToken
  /\ curResult = "ok"
  /\ curObs = <<CheckMeId>>
  /\ rst[CheckMeId] = "resolved"

\* C19: the profile page is rendered only when isLoading is false and the
\* access token is non-null; while isLoading is true App renders the loader
\* and no route; at /profile without a token the route redirects to
\* /login; and whatever user and token are, at most two redirects follow a
\* navigation, after which a page is rendered.
C19_RouteGuard ==
  /\ Showing("Profile") => ~isLoading /\ accessToken # NoToken
  /\ isLoading => Rendered = FullPageLoader
  /\ (~isLoading /\ Top(hist) = "/profile" /\ accessToken = NoToken) =>
       Rendered = Redirect("/login", FALSE)
  /\ redirects <= 2
  /\ redirects = 2 => Rendered.kind = "page"

\* With a user but no token, /profile has redirected to /login and /login
\* to the home page.
C19_Witness ==
  /\ redirects = 2
  /\ user # Null
  /\ accessToken = NoToken
  /\ Top(hist) = "/"
  /\ Showing("HomePage")

\* C13 as stated: in the whole application at most one POST /auth/refresh
\* is in flight at any time, the refresh of the interceptor, that of
\* SessionTimer.refreshSession and that of checkAuthStatus counted together.
C13_AppWideSingleFlight ==
  Cardinality(refreshing)
    + Cardinality({r \in ReqIds : rst[r] = "inflight" /\ url[r] = UrlRefresh}) <= 1

\* C16 as stated: once the session is logged out (start-up is over, user
\* and access token are null), user and access token stay null until
\* somebody logs in with credentials or a 2FA code, which nobody does in
\* this specification: no call that was in flight when logout() ran puts
\* the session back when it completes.
C16_LogoutSticky ==
  [][(~isLoading /\ user = Null /\ accessToken = NoToken) =>
       (user' = Null /\ accessToken' = NoToken)]_vars

\* C17: two-factor gating of login.  When POST /auth/login answers with
\* require_2fa, login() is not called: user, access token and default
\* header stay as they were.  Once start-up is over, the Login page sets
\* user or access token only when POST /auth/login succeeds without a 2FA
\* demand or when POST /auth/2fa/verify-login succeeds, and every
\* verify-login request carries the stored temp token and a code of exactly
\* six digits.  A failed verification, 'Back to Login', typing, opening or
\* closing the reset dialog, and the reset request with its answer never
\* turn a null user or token into a set one.
C17_TwoFactorGate ==
  [][/\ \A r \in ReqIds :
          CredOk(r, TRUE) => UNCHANGED <<user, accessToken, defaultAuth>>
     /\ (~isLoading /\ (user' # user \/ accessToken' # accessToken)
            /\ (user' # Null \/ accessToken' # NoToken)) =>
          \E r \in ReqIds :
            \/ CredOk(r, FALSE)
            \/ /\ OtpOk(r)
               /\ url[r] = UrlVerifyLogin
               /\ cap[r].temp # NoToken
               /\ Len(cap[r].code) = 6
     /\ \A r \in ReqIds :
          (rst[r] = "free" /\ url'[r] = UrlVerifyLogin) =>
            /\ loginStep = 2
            /\ tempToken # NoToken
            /\ cap'[r].temp = tempToken
            /\ Len(cap'[r].code) = 6
            /\ \A i \in 1..Len(cap'[r].code) : cap'[r].code[i] \in Digits
     /\ \A r \in ReqIds :
          (url[r] = UrlVerifyLogin /\ rst'[r] \in {"rejected", "refreshRejected"}
             /\ rst'[r] # rst[r]) =>
            /\ user' # Null => user # Null
            /\ accessToken' # NoToken => accessToken # NoToken
     /\ (\/ BackToLogin
         \/ ResetSubmit
         \/ \E open \in BOOLEAN : SetResetOpen(open)
         \/ \E ch \in KeyChars : OtpChange(ch)
         \/ \E r \in ReqIds : ResetOk(r)
         \/ \E r \in ReqIds, status \in ErrStatuses :
              url[r] = UrlRequestReset /\ RespondError(r, status)) =>
          /\ user' # Null => user # Null
          /\ accessToken' # NoToken => accessToken # NoToken]_vars

\* The login demanded a second factor, a six-digit code was submitted with
\* the stored temp token, and nobody is authenticated while the
\* verification is in flight.
C17_Witness ==
  /\ ~isLoading
  /\ user = Null
  /\ accessToken = NoToken
  /\ loginStep = 2
  /\ isLoginLoading
  /\ \E r \in ReqIds :
       /\ rst[r] = "inflight"
       /\ url[r] = UrlVerifyLogin
       /\ cap[r].temp = tempToken
       /\ tempToken # NoToken
       /\ Len(cap[r].code) = 6

\* The refresh calls of the mounted SessionTimer that are in flight.
TimerCalls == {r \in ReqIds : rst[r] = "inflight" /\ owner[r] = "timer"}

\* C21 as stated: the SessionTimer never has two of its own POST
\* /auth/refresh calls in flight at once, and when its refresh fails it
\* does not issue the refresh again at once: the step in which the call
\* fails leaves no refresh call of the SessionTimer in flight, so that the
\* calls per expiry are not one per failure.
C21_TimerBounded ==
  [][/\ Cardinality(TimerCalls') <= 1
     /\ \A r \in ReqIds :
          (r \in TimerCalls /\ rst'[r] = "rejected") => TimerCalls' = {}]_vars

\* C22 as stated: no lost profile update.  When a call that ends in
\* login({...user, ...}) or login(user, ...) completes successfully while
\* the session has a user, every change an earlier call made to that user
\* is still there afterwards: the later one does not write back the user
\* object it captured before the other finished.
C22_NoLostUpdate ==
  [][\A r \in ReqIds :
       ((ProfileOpOk(r) \/ TimerOk(r)) /\ user # Null /\ user' # Null) =>
         \A f \in DOMAIN user : user[f] # ServerUser[f] => user'[f] = user[f]]_vars

\* C23: login errors are status-driven.  A failed POST /auth/login is
\* rejected to its caller, calls no login() (user, access token and default
\* header stay as they are), leaves the login step as it is, which is step
\* 1 when the Login page is mounted, and sets the form-level message by the
\* status: 429, 401 and 403 have their own message, anything else gets
\* 'Login failed.'.  It starts no refresh, changes neither flag nor queue
\* and dispatches no 'logout' event, for status 401 as for any other.
C23_LoginErrors ==
  [][\A r \in ReqIds, status \in ErrStatuses :
       (RespondError(r, status) /\ url[r] = UrlLogin) =>
         /\ rst'[r] = "rejected"
         /\ UNCHANGED <<user, accessToken, defaultAuth>>
         /\ UNCHANGED <<isRefreshing, failedQueue, refreshing, logoutEvents>>
         /\ loginStep' = loginStep
         /\ Showing("Login") =>
              /\ loginStep' = 1
              /\ loginError' =
                   CASE status = 429 -> "Too many login attempts."
                     [] status = 401 -> "Incorrect username or password."
                     [] status = 403 -> "Account is not active. Please verify your email."
                     [] OTHER -> "Login failed."]_vars

\* A login was answered 401: the page shows its message at step 1, nobody
\* is logged in, and no refresh or 'logout' event has ever happened.
C23_Witness ==
  /\ Showing("Login")
  /\ loginError = "Incorrect username or password."
  /\ loginStep = 1
  /\ user = Null
  /\ accessToken = NoToken
  /\ ~isRefreshing
  /\ curResult = "none"
  /\ logoutEvents = 0

====
